---- MODULE Spec2Model ----
(***************************************************************************)
(* Model of backend/translations/utils/analysis.py: the batch orchestrator *)
(* print_semantic_matches with its progress file (processed_words.json),   *)
(* its match snapshot (semantic_matches.json), the dictionary stores it    *)
(* updates, and the inter-batch countdown_prompt with its key listener.    *)
(* A process may be killed at any step of a run and started again.         *)
(***************************************************************************)
EXTENDS Integers, Sequences, FiniteSets, TLC

\* ---------------------------------------------------------------- bounds
BatchSize == 2          \* batch_size argument (default 500)
Delay == 2              \* delay argument of countdown_prompt (default 10)
MaxRuns == 3            \* number of process starts explored

\* ------------------------------------------------------ program constants
threshold == 84         \* similarity threshold, in hundredths (0.84)
min_frequency == 100

\* ------------------------------------------------------------ input data
\* english_dict.json: word -> definition, in key order
EnglishKeys == <<"apple", "bird", "Cat", "Dog", "eel", "fox", "goat", "hen", "ibis">>

english_dict ==
  [w \in {"apple", "bird", "Cat", "Dog", "eel", "fox", "goat", "hen", "ibis"} |->
     CASE w = "apple" -> "a round fruit"
       [] w = "bird"  -> "a feathered animal"
       [] w = "Cat"   -> ""
       [] w = "Dog"   -> "a domesticated canine"
       [] w = "eel"   -> "a long fish"
       [] w = "fox"   -> "a wild canine"
       [] w = "goat"  -> "a horned animal"
       [] w = "hen"   -> "a farm bird"
       [] w = "ibis"  -> "a wading bird"]

Words == DOMAIN english_dict

\* str.lower()
lower(s) ==
  CASE s = "Cat" -> "cat"
    [] s = "Dog" -> "dog"
    [] OTHER -> s

\* WORD_FREQUENCIES (translations.utils.frequencies); "fox" is absent
WORD_FREQUENCIES ==
  [w \in {"apple", "bird", "cat", "dog", "eel", "goat", "hen", "ibis"} |->
     CASE w = "apple" -> 200
       [] w = "bird"  -> 300
       [] w = "cat"   -> 100
       [] w = "dog"   -> 150
       [] w = "eel"   -> 50
       [] w = "goat"  -> 100
       [] w = "hen"   -> 120
       [] w = "ibis"  -> 110]

\* WORD_FREQUENCIES.get(word.lower(), 0)
FreqOf(word) ==
  IF lower(word) \in DOMAIN WORD_FREQUENCIES THEN WORD_FREQUENCIES[lower(word)] ELSE 0

\* Ojibwe entries returned by get_all_ojibwe_to_english, in store order
TargetOrder == <<"makwa", "animosh">>
Targets == {"makwa", "animosh"}

InitialOjibwe ==
  [t \in Targets |->
     IF t = "makwa"
       THEN [english_text |-> <<"Dog">>, definition |-> "a large animal"]
       ELSE [english_text |-> <<>>, definition |-> ""]]

\* a store without any Ojibwe entry
EmptyOjibwe == [t \in {} |-> [english_text |-> <<>>, definition |-> ""]]

\* ------------------------------------------------------------- encoder
\* Mean-pooled DistilBERT vector of a text; the encoder is an input of the
\* model, so each text used here is given a fixed small integer vector
\* (four components stand for the encoder's hidden size).
Encode(text) ==
  CASE text = "a round fruit"         -> <<3, 4, 0, 0>>
    [] text = "a feathered animal"    -> <<5, 0, 0, 0>>
    [] text = ""                      -> <<0, 0, 0, 0>>
    [] text = "a domesticated canine" -> <<5, 0, 0, 0>>
    [] text = "a horned animal"       -> <<4, 3, 0, 0>>
    [] text = "a farm bird"           -> <<0, 5, 0, 0>>
    [] text = "a wading bird"         -> <<11, 18, 12, 6>>
    [] text = "a large animal"        -> <<3, 4, 0, 0>>
    [] text = "animosh (definition unavailable)" -> <<4, 3, 0, 0>>
    [] text = "makwa (definition unavailable)"   -> <<0, 5, 0, 0>>
    [] OTHER -> <<0, 5, 0, 0>>

\* batch_get_embeddings: one vector per text, order preserved
batch_get_embeddings(texts) == [k \in 1..Len(texts) |-> Encode(texts[k])]

\* np.dot
Dot(a, b) == a[1] * b[1] + a[2] * b[2] + a[3] * b[3] + a[4] * b[4]

\* np.linalg.norm (the vectors used have integer norms)
Norm(a) == CHOOSE n \in 0..25 : n * n = Dot(a, a)

\* float nan, kept apart from every similarity in -100..100
NaN == 0 - 1000

\* float(np.dot(a, b) / (norm(a) * norm(b))), in hundredths; 0/0 is nan
Cosine(a, b) ==
  IF Norm(a) * Norm(b) = 0 THEN NaN
  ELSE (100 * Dot(a, b)) \div (Norm(a) * Norm(b))

\* a variant that rejects a similarity equal to the threshold
Accepts_Strict(similarity, th) == similarity # NaN /\ similarity > th

\* similarity >= threshold (every comparison with nan is False)
Accepts(similarity, th) == similarity # NaN /\ similarity >= th

\* a variant that leaves the inner loop at the first accepted entry
MoreTargets_StopAtFirstMatch(k, n, accepted) == k < n /\ ~accepted

\* for j, trans in enumerate(ojibwe_translations): the inner loop goes on to
\* the next entry whether or not entry k (of n) was accepted
MoreTargets(k, n, accepted) == k < n

\* ------------------------------------------------------------- helpers
Range(s) == {s[k] : k \in 1..Len(s)}

Min(a, b) == IF a < b THEN a ELSE b

RECURSIVE SelectSeqBy(_, _)
\* list comprehension [x for x in s if x in keep]
SelectSeqBy(s, keep) ==
  IF s = <<>> THEN <<>>
  ELSE IF Head(s) \in keep THEN <<Head(s)>> \o SelectSeqBy(Tail(s), keep)
       ELSE SelectSeqBy(Tail(s), keep)

\* list.sort(key=lambda x: x[1], reverse=True) on (item, key) pairs:
\* stable, descending by key (equal keys keep their original order)
RECURSIVE InsertDesc(_, _)
InsertDesc(sorted, x) ==
  IF sorted = <<>> THEN <<x>>
  ELSE IF Head(sorted)[2] >= x[2]
         THEN <<Head(sorted)>> \o InsertDesc(Tail(sorted), x)
         ELSE <<x>> \o sorted

RECURSIVE SortDescFrom(_, _)
SortDescFrom(done, rest) ==
  IF rest = <<>> THEN done
  ELSE SortDescFrom(InsertDesc(done, Head(rest)), Tail(rest))

\* a variant that leaves the list in its original order
SortDesc_Unsorted(pairs) == pairs

SortDesc(pairs) == SortDescFrom(<<>>, pairs)

\* ----------------------------------------------------------- file model
\* A JSON file on disk: absent, holding a complete document, or holding
\* the truncated/partial text left by a writer killed after open(path, "w")
Absent == [kind |-> "absent", data |-> {}]

Partial == [kind |-> "partial", data |-> {}]

FileOf(doc) == [kind |-> "ok", data |-> doc]

\* ------------------------------------------------------ dictionary stores
\* get_all_ojibwe_to_english(): list of {ojibwe_text, english_text, definition}
get_all_ojibwe_to_english(db) ==
  LET order == SelectSeqBy(TargetOrder, DOMAIN db)
  IN  [k \in 1..Len(order) |->
         [ojibwe_text  |-> order[k],
          english_text |-> db[order[k]].english_text,
          definition   |-> db[order[k]].definition]]

\* update_or_create_ojibwe_to_english(ojibwe_text, [eng_word])
update_or_create_ojibwe_to_english(db, ojibwe_text, english_texts) ==
  [db EXCEPT ![ojibwe_text].english_text = english_texts]

\* update_or_create_english_to_ojibwe(eng_word, ojibwe_text)
update_or_create_english_to_ojibwe(store, eng_word, ojibwe_text) ==
  store \cup {<<eng_word, ojibwe_text>>}

\* ------------------------------------------------- prioritized candidates
\* {t["english_text"][0].lower() for t in ojibwe_translations if t.get("english_text")}
translated_english(translations) ==
  {lower(translations[k].english_text[1]) :
     k \in {n \in 1..Len(translations) : translations[n].english_text # <<>>}}

\* [word for word in english_dict.keys() if word.lower() not in translated_english]
untranslated_words(translations) ==
  SelectSeqBy(EnglishKeys,
              {w \in Words : lower(w) \notin translated_english(translations)})

\* mutant: the processed words are not filtered out
word_freqs_Unfiltered(untranslated, processed) ==
  [k \in 1..Len(untranslated) |-> <<untranslated[k], FreqOf(untranslated[k])>>]

\* [(word, freq(word)) for word in untranslated_words if word not in processed_words]
word_freqs(untranslated, processed) ==
  LET kept == SelectSeqBy(untranslated, Words \ processed)
  IN  [k \in 1..Len(kept) |-> <<kept[k], FreqOf(kept[k])>>]

\* a variant that keeps only the words strictly above the minimum
FrequencyFilter_Strict(pairs, minfreq) ==
  LET keep == {k \in 1..Len(pairs) : pairs[k][2] > minfreq}
      kept == SelectSeqBy([k \in 1..Len(pairs) |-> k], keep)
  IN  [k \in 1..Len(kept) |-> pairs[kept[k]]]

\* [(word, freq) for word, freq in word_freqs if freq >= min_frequency]
FrequencyFilter(pairs, minfreq) ==
  LET keep == {k \in 1..Len(pairs) : pairs[k][2] >= minfreq}
      kept == SelectSeqBy([k \in 1..Len(pairs) |-> k], keep)
  IN  [k \in 1..Len(kept) |-> pairs[kept[k]]]

\* remaining_words = [word for word, _ in sorted word_freqs]
RemainingWords(translations, processed) ==
  LET sorted == SortDesc(FrequencyFilter(
                  word_freqs(untranslated_words(translations), processed),
                  min_frequency))
  IN  [k \in 1..Len(sorted) |-> sorted[k][1]]

\* f"{text} (definition unavailable)"
Placeholder(text) ==
  CASE text = "makwa"   -> "makwa (definition unavailable)"
    [] text = "animosh" -> "animosh (definition unavailable)"
    [] OTHER -> "(definition unavailable)"

\* trans.get("definition", ...), with the placeholder for an empty one
ojibwe_defs(translations) ==
  [k \in 1..Len(translations) |->
     IF translations[k].definition # ""
       THEN translations[k].definition
       ELSE Placeholder(translations[k].ojibwe_text)]

\* remaining_words[batch_start:batch_start + batch_size]
BatchSlice(remaining, start, size) ==
  SubSeq(remaining, start + 1, Min(start + size, Len(remaining)))

\* mutant: the loop advances by one word instead of one batch
NextBatchStart_ByOne(start, size) == start + 1

\* mutant: the next slice starts on the last word of the previous one
NextBatchStart_Overlap(start, size) == start + size - 1

\* the step of range(0, len(remaining_words), batch_size)
NextBatchStart(start, size) == start + size

\* mutant: the set is replaced by the batch instead of extended
UpdateProcessed_Replace(processed, batch) == Range(batch)

\* mutant: the last word of the batch is not recorded
UpdateProcessed_DropLast(processed, batch) ==
  processed \cup Range(SubSeq(batch, 1, Len(batch) - 1))

\* processed_words.update(batch_words)
UpdateProcessed(processed, batch) == processed \cup Range(batch)

\* load_processed_words: the stored set, or set() when the file is missing
load_processed_words(file) == IF file.kind = "ok" THEN file.data ELSE {}

\* a variant that numbers the records in discovery order and sorts afterwards
IndexedMatches_IndexFirst(matches) ==
  LET sorted == SortDesc([k \in 1..Len(matches) |->
                            <<[index |-> k - 1,
                               english_text |-> matches[k].english_text,
                               english_definition |-> matches[k].english_definition,
                               ojibwe_text |-> matches[k].ojibwe_text,
                               ojibwe_definition |-> matches[k].ojibwe_definition,
                               similarity |-> matches[k].similarity],
                              matches[k].similarity>>])
  IN  [k \in 1..Len(sorted) |-> sorted[k][1]]

\* the export: sort by similarity descending, then {**match, "index": idx}
IndexedMatches(matches) ==
  LET sorted == SortDesc([k \in 1..Len(matches) |->
                            <<matches[k], matches[k].similarity>>])
  IN  [k \in 1..Len(sorted) |->
         [index |-> k - 1,
          english_text |-> sorted[k][1].english_text,
          english_definition |-> sorted[k][1].english_definition,
          ojibwe_text |-> sorted[k][1].ojibwe_text,
          ojibwe_definition |-> sorted[k][1].ojibwe_definition,
          similarity |-> sorted[k][1].similarity]]

\* a variant of the batch head that encodes the Ojibwe definitions again
TargetEncodesAfterBatchHead_Reencode(calls) == calls + 1

\* number of encoder calls made on the Ojibwe definitions once a batch has
\* started: the loop body encodes eng_defs only and reuses ojibwe_embeds
TargetEncodesAfterBatchHead(calls) == calls

\* a variant with one event shared by all countdowns and never cleared
NewStopEvent_Shared(old) == old

\* stop_event = threading.Event() in countdown_prompt: every call creates a
\* new event, which is clear, whatever happened to the one before (old)
NewStopEvent(old) == FALSE

\* a variant that leaves the scoring loops before the last word of the batch
ScoringFinished_Early(k, words) == k >= Len(words)

\* for i, eng_word in enumerate(batch_words): the statements after the loops
\* run once the word index k has passed the last word
ScoringFinished(k, words) == k > Len(words)

\* a variant that swallows the exception and carries on
OnWriteError_Swallow(step) == IF step = "save" THEN "countdown" ELSE "done"

\* where the run stands after json.dump raised: the call sits in no try
\* block, so the exception ends the run
OnWriteError(step) == "failed"

\* a variant that leaves the batch loop and exports what was found so far
OnEncodeError_Break(words) == "export"

\* where the run stands after the encoder raised for a batch: the call sits
\* in no try block, so the exception ends the run
OnEncodeError(words) == "failed"

\* a variant that goes on when the database returned no Ojibwe entry
NoTargets_Ignored(translations) == FALSE

\* if not ojibwe_translations: return False
NoTargets(translations) == translations = <<>>

\* a variant that enters the batch loop with an empty candidate list
NothingToProcess_Ignored(remaining) == FALSE

\* if not remaining_words: return False
NothingToProcess(remaining) == remaining = <<>>

\* a variant that reads the snapshot found at the start and merges into it
ExportedRecords_Merged(previous, matches) ==
  IndexedMatches(
    (IF previous.kind = "ok"
       THEN [k \in 1..Len(previous.data) |->
               [english_text |-> previous.data[k].english_text,
                english_definition |-> previous.data[k].english_definition,
                ojibwe_text |-> previous.data[k].ojibwe_text,
                ojibwe_definition |-> previous.data[k].ojibwe_definition,
                similarity |-> previous.data[k].similarity]]
       ELSE <<>>) \o matches)

\* what json.dump writes to semantic_matches.json: the indexed in-memory list;
\* the file found at the start (previous) is never read
ExportedRecords(previous, matches) == IndexedMatches(matches)

\* a variant that computes the statistics without testing the list
Summary_Unguarded(matches) ==
  IF matches = <<>> THEN [kind |-> "error"]
  ELSE [kind |-> "stats", count |-> Len(matches)]

\* the closing summary: statistics if all_matches is non-empty, otherwise
\* "No semantic matches found above threshold."
Summary(matches) ==
  IF matches # <<>> THEN [kind |-> "stats", count |-> Len(matches)]
  ELSE [kind |-> "none"]

\* ------------------------------------------------------------------ state
\* ---- the mobile recorder (App.js) ----

\* most button presses in one session
MaxPresses == 4

\* most handlers suspended at an await at one time
MaxInFlight == 2

\* the calls a handler of App awaits
Calls == {"requestPermission", "startRecorder", "stopRecorder", "putFile"}

\* App.js uses the identifier Platform without importing it: what it resolves
\* to is decided by the global scope App.js is loaded into. "unbound": no such
\* global, evaluating it throws ReferenceError
Platforms == {"unbound", "android", "ios"}

\* Platform.select({ ios: 'recording.m4a', android: '/sdcard/recording.mp3' })
PlatformSelect(os) == IF os = "ios" THEN "recording.m4a" ELSE "/sdcard/recording.mp3"

UploadDisabled_IgnoresPath(fp, rec) == rec

\* disabled={!filePath || recording} of the Upload button
UploadDisabled(fp, rec) == fp = "" \/ rec

VARIABLES
  processed_file,     \* processed_words.json
  matches_file,       \* semantic_matches.json
  ojibwe_db,          \* Ojibwe -> English store (MongoDB)
  english_to_ojibwe,  \* English -> Ojibwe store: set of <<english, ojibwe>>
  pc,                 \* position of the process
  run_no,             \* number of process starts so far
  ojibwe_translations,
  ojibwe_embeds,
  remaining_words,
  processed_words,
  batch_start,
  batch_number,
  total_processed,
  batch_words,
  eng_embeds,
  i,                  \* index of the word being scored in the batch
  j,                  \* index of the target being compared
  batch_matches,
  all_matches,
  cd_i,               \* loop variable of the countdown
  stop_event,         \* threading.Event of the current countdown
  listening,          \* a listener thread is blocked in keyboard.read_event()
  ret,                \* how the last countdown_prompt call ended
  loaded,             \* history: set returned by load_processed_words
  scored,             \* history: words whose comparison pass completed
  batched,            \* history: words placed in a batch in this run
  signalled,          \* history: a key press arrived during a countdown
  killed_unsaved,     \* history: killed after a match was persisted, before the save
  prev_end,           \* history: how the previous run ended
  prev_translations,  \* history: Ojibwe entries loaded by the previous run
  accepted_before,    \* history: words with a persisted match when the run started
  target_encodes,     \* history: encoder calls on the Ojibwe definitions in this run
  last_pair,          \* history: the pair scored last and its similarity
  at_start,           \* history: the files and stores as the run found them
  ignored_press,      \* history: a key press arrived outside every countdown
  error,              \* the uncaught exception that ended the run, or "none"
  platform,           \* mobile recorder: what the identifier Platform resolves to
  recording,          \* mobile recorder: useState(false)
  filePath,           \* mobile recorder: useState('')
  uploadStatus,       \* mobile recorder: useState('')
  awaiting,           \* mobile recorder: handlers suspended at an await, per call awaited
  storage,            \* mobile recorder: files put to Firebase storage
  presses,            \* history: button presses so far
  stopped,            \* history: stopRecorder calls that returned a path
  rejected            \* history: handlers that ended with an exception

persistent == <<processed_file, matches_file, ojibwe_db, english_to_ojibwe>>

runvars == <<ojibwe_translations, ojibwe_embeds, remaining_words, processed_words,
             batch_start, batch_number, total_processed, batch_words, eng_embeds,
             i, j, batch_matches, all_matches>>

gatevars == <<cd_i, stop_event, listening, ret>>

history == <<loaded, scored, batched, signalled, killed_unsaved, prev_end, prev_translations,
             accepted_before, target_encodes, last_pair, at_start, ignored_press>>

appvars == <<platform, recording, filePath, uploadStatus, awaiting, storage,
             presses, stopped, rejected>>

orchvars == <<persistent, pc, run_no, runvars, gatevars, history, error>>

vars == <<orchvars, appvars>>

\* "failed": the run ended with an uncaught exception (see error)
Stopped == {"idle", "done", "exited", "returned", "failed", "crashed"}

Running == {"batch", "score", "save", "countdown", "sleep", "export", "export_write"}

OrchInit ==
  /\ processed_file \in {Absent, FileOf({"apple"}), FileOf({"apple", "bird"})}
  /\ matches_file = Absent
  /\ ojibwe_db \in {InitialOjibwe, EmptyOjibwe}
  /\ english_to_ojibwe = {}
  /\ pc = "idle"
  /\ run_no = 0
  /\ ojibwe_translations = <<>>
  /\ ojibwe_embeds = <<>>
  /\ remaining_words = <<>>
  /\ processed_words = {}
  /\ batch_start = 0
  /\ batch_number = 1
  /\ total_processed = 0
  /\ batch_words = <<>>
  /\ eng_embeds = <<>>
  /\ i = 1
  /\ j = 1
  /\ batch_matches = <<>>
  /\ all_matches = <<>>
  /\ cd_i = 0
  /\ stop_event = FALSE
  /\ listening = FALSE
  /\ ret = "none"
  /\ loaded = {}
  /\ scored = {}
  /\ batched = {}
  /\ signalled = FALSE
  /\ killed_unsaved = FALSE
  /\ prev_end = "none"
  /\ prev_translations = <<>>
  /\ accepted_before = {}
  /\ target_encodes = 0
  /\ last_pair = <<>>
  /\ at_start = <<processed_file, matches_file, ojibwe_db, english_to_ojibwe>>
  /\ ignored_press = FALSE
  /\ error = "none"

\* the component as first rendered: the three useState initial values, no
\* handler running
AppMounted ==
  /\ recording = FALSE
  /\ filePath = ""
  /\ uploadStatus = ""
  /\ awaiting = [c \in Calls |-> 0]
  /\ storage = 0
  /\ presses = 0
  /\ stopped = 0
  /\ rejected = 0

Init ==
  /\ OrchInit
  /\ platform = "android"
  /\ AppMounted

\* print_semantic_matches up to the batch loop: load the vocabularies and the
\* processed set, build the prioritized list, encode the Ojibwe definitions
StartRun ==
  /\ pc \in Stopped
  /\ run_no < MaxRuns
  /\ run_no' = run_no + 1
  /\ prev_end' = pc
  /\ prev_translations' = ojibwe_translations
  /\ accepted_before' = {m[1] : m \in english_to_ojibwe}
  /\ last_pair' = <<>>
  /\ at_start' = persistent
  /\ ignored_press' = FALSE
  /\ LET translations == get_all_ojibwe_to_english(ojibwe_db)
         processed == load_processed_words(processed_file)
         remaining == RemainingWords(translations, processed)
     IN  /\ ojibwe_translations' = translations
         /\ IF NoTargets(translations)
              THEN \* "No Ojibwe translations found in database."
                   /\ pc' = "returned"
                   /\ error' = "none"
                   /\ processed_words' = {}
                   /\ remaining_words' = <<>>
                   /\ ojibwe_embeds' = <<>>
                   /\ target_encodes' = 0
                   /\ loaded' = {}
              ELSE IF processed_file.kind = "partial"
              THEN \* json.load raises JSONDecodeError, which is not caught
                   /\ pc' = "failed"
                   /\ error' = "JSONDecodeError"
                   /\ processed_words' = {}
                   /\ remaining_words' = <<>>
                   /\ ojibwe_embeds' = <<>>
                   /\ target_encodes' = 0
                   /\ loaded' = {}
              ELSE /\ processed_words' = processed
                   /\ loaded' = processed
                   /\ remaining_words' = remaining
                   /\ error' = "none"
                   /\ IF NothingToProcess(remaining)
                        THEN /\ pc' = "returned"
                             /\ ojibwe_embeds' = <<>>
                             /\ target_encodes' = 0
                        ELSE /\ pc' = "batch"
                             /\ ojibwe_embeds' =
                                  batch_get_embeddings(ojibwe_defs(translations))
                             /\ target_encodes' = 1
  /\ batch_start' = 0
  /\ batch_number' = 1
  /\ total_processed' = 0
  /\ batch_words' = <<>>
  /\ eng_embeds' = <<>>
  /\ i' = 1
  /\ j' = 1
  /\ batch_matches' = <<>>
  /\ all_matches' = <<>>
  /\ cd_i' = 0
  /\ stop_event' = FALSE
  /\ listening' = FALSE
  /\ ret' = "none"
  /\ scored' = {}
  /\ batched' = {}
  /\ signalled' = FALSE
  /\ UNCHANGED appvars
  /\ UNCHANGED <<persistent, killed_unsaved>>

\* top of the batch loop: slice the batch, resolve and encode its definitions
BeginBatch ==
  /\ pc = "batch"
  /\ LET words == BatchSlice(remaining_words, batch_start, BatchSize)
     IN  /\ batch_words' = words
         /\ eng_embeds' = batch_get_embeddings(
                            [k \in 1..Len(words) |-> english_dict[words[k]]])
         /\ batched' = batched \cup Range(words)
  /\ target_encodes' = TargetEncodesAfterBatchHead(target_encodes)
  /\ batch_matches' = <<>>
  /\ i' = 1
  /\ j' = 1
  /\ pc' = "score"
  /\ UNCHANGED appvars
  /\ UNCHANGED <<persistent, run_no, ojibwe_translations, ojibwe_embeds,
                 remaining_words, processed_words, batch_start, batch_number,
                 total_processed, all_matches, gatevars,
                 loaded, scored, signalled, killed_unsaved, prev_end, prev_translations,
                 accepted_before, last_pair, at_start, ignored_press, error>>

\* one iteration of the inner loop: compare word i of the batch with target j;
\* an accepted pair is appended to batch_matches and written to both stores
ScorePair ==
  /\ pc = "score"
  /\ ~ScoringFinished(i, batch_words)
  /\ LET eng_word == batch_words[i]
         trans == ojibwe_translations[j]
         similarity == Cosine(eng_embeds[i], ojibwe_embeds[j])
         match == [english_text |-> eng_word,
                   english_definition |-> english_dict[eng_word],
                   ojibwe_text |-> trans.ojibwe_text,
                   ojibwe_definition |-> ojibwe_defs(ojibwe_translations)[j],
                   similarity |-> similarity]
     IN  /\ last_pair' = [english_text |-> eng_word,
                           ojibwe_text |-> trans.ojibwe_text,
                           norms |-> Norm(eng_embeds[i]) * Norm(ojibwe_embeds[j]),
                           similarity |-> similarity]
         /\ IF Accepts(similarity, threshold)
              THEN /\ batch_matches' = Append(batch_matches, match)
                   /\ english_to_ojibwe' = update_or_create_english_to_ojibwe(
                                             english_to_ojibwe, eng_word, trans.ojibwe_text)
                   /\ ojibwe_db' = update_or_create_ojibwe_to_english(
                                     ojibwe_db, trans.ojibwe_text, <<eng_word>>)
              ELSE UNCHANGED <<batch_matches, english_to_ojibwe, ojibwe_db>>
         /\ IF MoreTargets(j, Len(ojibwe_translations), Accepts(similarity, threshold))
              THEN j' = j + 1 /\ UNCHANGED <<i, scored>>
              ELSE j' = 1 /\ i' = i + 1 /\ scored' = scored \cup {eng_word}
  /\ UNCHANGED appvars
  /\ UNCHANGED <<processed_file, matches_file, pc, run_no, ojibwe_translations,
                 ojibwe_embeds, remaining_words, processed_words, batch_start,
                 batch_number, total_processed, batch_words, eng_embeds,
                 all_matches, gatevars,
                 loaded, batched, signalled, killed_unsaved, prev_end, prev_translations,
                 accepted_before, target_encodes, at_start, ignored_press, error>>

\* end of the scoring loops: all_matches.extend, processed_words.update, and
\* save_processed_words opens the file with mode "w", which truncates it
FinishBatch ==
  /\ pc = "score"
  /\ ScoringFinished(i, batch_words)
  /\ all_matches' = all_matches \o batch_matches
  /\ processed_words' = UpdateProcessed(processed_words, batch_words)
  /\ processed_file' = Partial
  /\ pc' = "save"
  /\ UNCHANGED appvars
  /\ UNCHANGED <<matches_file, ojibwe_db, english_to_ojibwe, run_no,
                 ojibwe_translations, ojibwe_embeds, remaining_words, batch_start,
                 batch_number, total_processed, batch_words, eng_embeds, i, j,
                 batch_matches, gatevars, history, error>>

\* json.dump completes and the file is closed; the counters advance; the loop
\* breaks after the last batch, otherwise countdown_prompt starts: a fresh
\* stop_event and a fresh daemon listener thread
SaveDone ==
  /\ pc = "save"
  /\ processed_file' = FileOf(processed_words)
  /\ total_processed' = total_processed + Len(batch_words)
  /\ batch_number' = batch_number + 1
  /\ IF batch_start + BatchSize >= Len(remaining_words)
       THEN /\ pc' = "export"
            /\ UNCHANGED gatevars
       ELSE /\ pc' = "countdown"
            /\ stop_event' = NewStopEvent(stop_event)
            /\ listening' = TRUE
            /\ cd_i' = Delay
            /\ ret' = "none"
  /\ UNCHANGED appvars
  /\ UNCHANGED <<matches_file, ojibwe_db, english_to_ojibwe, run_no,
                 ojibwe_translations, ojibwe_embeds, remaining_words,
                 processed_words, batch_start, batch_words, eng_embeds, i, j,
                 batch_matches, all_matches, history, error>>

\* check_keypress: keyboard.read_event() returns and the event is set
KeyPress ==
  /\ listening
  /\ pc \in Running
  /\ stop_event' = TRUE
  /\ listening' = FALSE
  /\ signalled' = (signalled \/ pc \in {"countdown", "sleep"})
  /\ ignored_press' = (ignored_press \/ pc \notin {"countdown", "sleep"})
  /\ UNCHANGED appvars
  /\ UNCHANGED <<persistent, pc, run_no, runvars, cd_i, ret,
                 loaded, scored, batched, killed_unsaved, prev_end, prev_translations,
                 accepted_before, target_encodes, last_pair, at_start, error>>

\* head of the countdown loop body: if stop_event.is_set(): sys.exit(0),
\* which raises SystemExit through print_semantic_matches
CountdownCheck ==
  /\ pc = "countdown"
  /\ IF stop_event
       THEN /\ pc' = "exited"
            /\ ret' = "SystemExit"
            /\ listening' = FALSE
       ELSE /\ pc' = "sleep"
            /\ UNCHANGED <<ret, listening>>
  /\ UNCHANGED appvars
  /\ UNCHANGED <<persistent, run_no, runvars, cd_i, stop_event, history, error>>

\* time.sleep(1) returns and the remaining seconds are printed; after the last
\* second countdown_prompt returns True and the next batch starts
CountdownSleep ==
  /\ pc = "sleep"
  /\ cd_i' = cd_i - 1
  /\ IF cd_i - 1 > 0
       THEN /\ pc' = "countdown"
            /\ UNCHANGED <<ret, batch_start>>
       ELSE /\ ret' = "True"
            /\ batch_start' = NextBatchStart(batch_start, BatchSize)
            /\ pc' = "batch"
  /\ UNCHANGED appvars
  /\ UNCHANGED <<persistent, run_no, ojibwe_translations, ojibwe_embeds,
                 remaining_words, processed_words, batch_number, total_processed,
                 batch_words, eng_embeds, i, j, batch_matches, all_matches,
                 stop_event, listening, history, error>>

\* after the loop: sort and index all_matches, open semantic_matches.json "w"
ExportOpen ==
  /\ pc = "export"
  /\ matches_file' = Partial
  /\ pc' = "export_write"
  /\ UNCHANGED appvars
  /\ UNCHANGED <<processed_file, ojibwe_db, english_to_ojibwe, run_no, runvars,
                 gatevars, history, error>>

\* json.dump(indexed_matches) completes; the summary is printed; return True
ExportWrite ==
  /\ pc = "export_write"
  /\ matches_file' = FileOf(ExportedRecords(at_start[2], all_matches))
  /\ IF Summary(all_matches).kind = "error"
       THEN pc' = "failed" /\ error' = "ValueError"
       ELSE pc' = "done" /\ error' = "none"
  /\ listening' = FALSE
  /\ UNCHANGED appvars
  /\ UNCHANGED <<processed_file, ojibwe_db, english_to_ojibwe, run_no, runvars,
                 cd_i, stop_event, ret, history>>

\* the process is killed
Crash ==
  /\ pc \in Running
  /\ pc' = "crashed"
  /\ listening' = FALSE
  /\ killed_unsaved' = (killed_unsaved \/ (pc = "score" /\ batch_matches # <<>>))
  /\ UNCHANGED appvars
  /\ UNCHANGED <<persistent, run_no, runvars, cd_i, stop_event, ret,
                 loaded, scored, batched, signalled, prev_end, prev_translations,
                 accepted_before, target_encodes, last_pair, at_start, ignored_press,
                 error>>

\* json.dump raises OSError while processed_words.json or semantic_matches.json
\* is being written (disk full, device error): no handler encloses either
\* call, the exception leaves print_semantic_matches and the file stays cut off
WriteFails ==
  /\ pc \in {"save", "export_write"}
  /\ pc' = OnWriteError(pc)
  /\ error' = IF pc = "save" THEN "OSError:save" ELSE "OSError:export"
  /\ listening' = FALSE
  /\ UNCHANGED appvars
  /\ UNCHANGED <<persistent, run_no, runvars, cd_i, stop_event, ret, history>>

\* batch_get_embeddings raises for the batch's definitions (model or device
\* unavailable): the batch was sliced, nothing else of the loop body has run
EncodeFails ==
  /\ pc = "batch"
  /\ batch_words' = BatchSlice(remaining_words, batch_start, BatchSize)
  /\ pc' = OnEncodeError(batch_words')
  /\ error' = "EncoderError"
  /\ listening' = FALSE
  /\ UNCHANGED appvars
  /\ UNCHANGED <<persistent, run_no, ojibwe_translations, ojibwe_embeds,
                 remaining_words, processed_words, batch_start, batch_number,
                 total_processed, eng_embeds, i, j, batch_matches, all_matches,
                 cd_i, stop_event, ret, history>>

Next ==
  \/ StartRun
  \/ BeginBatch
  \/ ScorePair
  \/ FinishBatch
  \/ SaveDone
  \/ KeyPress
  \/ CountdownCheck
  \/ CountdownSleep
  \/ ExportOpen
  \/ ExportWrite
  \/ Crash
  \/ WriteFails
  \/ EncodeFails

Spec == Init /\ [][Next]_vars

\* ----------------------------------------------------------------- claims
\* the processed-words record as a later load would see it
Persisted == IF processed_file.kind = "ok" THEN processed_file.data ELSE {}

AtGate == pc \in {"countdown", "sleep"}

Ended == pc \in {"done", "exited", "returned"}

Matched(w) == \E k \in 1..Len(all_matches) : all_matches[k].english_text = w

\* C1: at the inter-batch gate and after the run has ended, the processed-words
\* file holds every word loaded at Init and every word whose comparison pass
\* completed in this run, matched or not.
C1_ProcessedRecordComplete ==
  (AtGate \/ Ended) => (loaded \cup scored) \subseteq Persisted

\* C1 witness: at the gate, a word that was scored without producing a match
\* is in the file.
C1_Witness ==
  /\ AtGate
  /\ \E w \in scored : ~Matched(w) /\ w \in Persisted
  /\ \E w \in scored : Matched(w) /\ w \in Persisted

\* C3: no word of the set loaded at Init is placed in a batch or scored.
C3_LoadedNeverBatched ==
  /\ loaded \cap batched = {}
  /\ loaded \cap scored = {}
  /\ loaded \cap Range(batch_words) = {}

\* C3 witness: a run that resumes after an interruption, with a loaded word that
\* never produced a match, while it is scoring a batch of other words.
C3_Witness ==
  /\ prev_end = "exited"
  /\ pc = "score"
  /\ i = 2
  /\ \E w \in loaded : \A t \in Targets : <<w, t>> \notin english_to_ojibwe

\* C4: after a cancelled run the file holds the loaded set plus the words of a
\* whole number of batches, and every word that was placed in a batch has been
\* scored and saved.
C4_CancelledRunBatchAligned ==
  pc = "exited" =>
    \E k \in 1..Len(remaining_words) :
      LET done == Range(SubSeq(remaining_words, 1,
                               Min(k * BatchSize, Len(remaining_words))))
      IN  /\ Persisted = loaded \cup done
          /\ batched = done
          /\ scored = done

\* C4 witness: a run cancelled at the second gate, after two whole batches.
C4_Witness ==
  /\ pc = "exited"
  /\ batch_number = 3
  /\ Cardinality(Persisted \ loaded) = 2 * BatchSize

\* C8: the match snapshot and the in-memory match list hold at most one record
\* for each (english_text, ojibwe_text) pair.
C8_NoDuplicatePairs ==
  /\ \A a, b \in 1..Len(all_matches) :
       (/\ all_matches[a].english_text = all_matches[b].english_text
        /\ all_matches[a].ojibwe_text = all_matches[b].ojibwe_text) => a = b
  /\ matches_file.kind = "ok" =>
       \A a, b \in 1..Len(matches_file.data) :
         (/\ matches_file.data[a].english_text = matches_file.data[b].english_text
          /\ matches_file.data[a].ojibwe_text = matches_file.data[b].ojibwe_text)
           => a = b

\* C8 witness: a rerun after a kill that followed a persisted match has
\* completed and exported matches.
C8_Witness ==
  /\ killed_unsaved
  /\ prev_end = "crashed"
  /\ pc = "done"
  /\ matches_file.kind = "ok"
  /\ Len(matches_file.data) >= 2

C5_InterruptionKeepsMatches ==
  pc = "exited" =>
    /\ matches_file.kind = "ok"
    /\ \A k \in 1..Len(all_matches) :
         \E n \in 1..Len(matches_file.data) :
           /\ matches_file.data[n].english_text = all_matches[k].english_text
           /\ matches_file.data[n].ojibwe_text = all_matches[k].ojibwe_text

\* C6: once a key press has arrived during the countdown, no further batch is
\* started: the run stays in the countdown until it exits.
C6_SignalDuringCountdownAborts ==
  signalled => pc \in {"countdown", "sleep", "exited", "crashed"}

\* C7: countdown_prompt hands its caller True when the countdown elapsed and
\* False when the user interrupted.
C7_CountdownReturnsBool ==
  /\ ret \in {"none", "True", "False"}
  /\ pc = "exited" => ret = "False"

\* C9: after a kill that followed a persisted match and preceded the save of the
\* processed set, once a clean rerun has completed every source word with a
\* persisted match is in the processed set, and no match is duplicated.
C9_CrashSafety ==
  (killed_unsaved /\ prev_end = "crashed" /\ pc \in {"done", "returned"}) =>
    /\ \A m \in english_to_ojibwe : m[1] \in Persisted
    /\ matches_file.kind = "ok" =>
         \A a, b \in 1..Len(matches_file.data) :
           (/\ matches_file.data[a].english_text = matches_file.data[b].english_text
            /\ matches_file.data[a].ojibwe_text = matches_file.data[b].ojibwe_text)
             => a = b

\* C10: at every point of a run, and after a kill, the words whose comparison
\* pass completed in this run and which are not in the processed-words file all
\* belong to the batch in flight.
C10_AtMostOneBatchUnsaved ==
  pc \in Running \cup {"crashed"} =>
    (scored \ Persisted) \subseteq Range(batch_words)

\* the set written by the last completed save of this run, or the set loaded
\* at Init when no save has completed: the loaded words and every whole batch
\* before the one in flight
PreviousSet ==
  loaded \cup Range(SubSeq(remaining_words, 1,
                           Min(batch_start, Len(remaining_words))))

\* C11: after the process was killed, at any point of a save included, the
\* processed-words file is never a partial document, loading it yields the
\* previously saved set or the new set, and no later load of it fails.
C11_SaveAtomic ==
  /\ pc = "crashed" =>
       /\ processed_file.kind # "partial"
       /\ run_no >= 1 /\ ojibwe_translations # <<>> =>
            load_processed_words(processed_file) \in {PreviousSet, processed_words}
  /\ prev_end = "crashed" => error # "JSONDecodeError"

\* C12: within a run the in-memory processed set only grows, and every save
\* that completes writes exactly that set, a superset of the set loaded at Init
\* and hence of what every earlier save of the run wrote.
C12_AppendOnly ==
  [][run_no' = run_no =>
       /\ processed_words \subseteq processed_words'
       /\ (processed_file'.kind = "ok" /\ processed_file' # processed_file) =>
            /\ processed_file'.data = processed_words'
            /\ loaded \subseteq processed_file'.data
            /\ Persisted \subseteq processed_file'.data]_vars

\* C12 witness: the second save of a run that loaded a non-empty set has
\* completed, and the file holds the loaded words and both batches.
C12_Witness ==
  /\ loaded # {}
  /\ batch_number = 3
  /\ pc = "export"
  /\ loaded \subseteq Persisted
  /\ Cardinality(Persisted \ loaded) > BatchSize

\* C13: a word for which the dictionary hooks were called in an earlier run is
\* read back as translated by every later run and is not among its candidates,
\* and within a run no word with a match from an earlier batch is in the batch
\* being scored.
C13_AcceptedNeverCandidateAgain ==
  /\ \A w \in accepted_before :
       /\ ojibwe_translations # <<>> =>
            lower(w) \in translated_english(ojibwe_translations)
       /\ w \notin Range(remaining_words)
       /\ w \notin batched
  /\ pc = "score" =>
       {all_matches[k].english_text : k \in 1..Len(all_matches)}
         \cap Range(batch_words) = {}

\* C14: from the start of the first batch to the end of the run the Ojibwe
\* definitions have been encoded exactly once, and the Ojibwe embeddings are
\* the encoding of the definitions loaded at the start of the run, whatever
\* the batches have written to the stores since.
C14_TargetsEncodedOnce ==
  pc \in Running =>
    /\ target_encodes = 1
    /\ ojibwe_embeds = batch_get_embeddings(ojibwe_defs(ojibwe_translations))
    /\ Len(ojibwe_embeds) = Len(ojibwe_translations)

\* C14 witness: the third batch of a run is being scored, after matches of the
\* earlier batches were written to the store.
C14_Witness ==
  /\ pc = "score"
  /\ batch_number = 3
  /\ all_matches # <<>>
  /\ ojibwe_db # InitialOjibwe
  /\ target_encodes = 1

\* C15: the prioritized candidate list is non-increasing in frequency, the
\* batches are consecutive slices of it taken from the front, and every word
\* of an earlier batch has a frequency at least that of every word of the
\* batch in flight.
C15_BatchesByFrequency ==
  /\ \A a, b \in 1..Len(remaining_words) :
       a < b => FreqOf(remaining_words[a]) >= FreqOf(remaining_words[b])
  /\ pc \in {"score", "save"} =>
       /\ batched = Range(SubSeq(remaining_words, 1,
                                 Min(batch_start + BatchSize, Len(remaining_words))))
       /\ \A v \in batched \ Range(batch_words) : \A w \in Range(batch_words) :
            FreqOf(v) >= FreqOf(w)

\* C15 witness: the third batch is being scored; the list holds words of
\* different frequencies, two words of equal frequency, and its key order is
\* not its frequency order.
C15_Witness ==
  /\ pc = "score"
  /\ batch_number = 3
  /\ batched \ Range(batch_words) # {}
  /\ \E a, b \in 1..Len(remaining_words) :
       a < b /\ FreqOf(remaining_words[a]) > FreqOf(remaining_words[b])
  /\ \E a, b \in 1..Len(remaining_words) :
       a < b /\ FreqOf(remaining_words[a]) = FreqOf(remaining_words[b])
  /\ remaining_words # SelectSeqBy(EnglishKeys, Range(remaining_words))

RunMatches == IF pc = "score" THEN all_matches \o batch_matches ELSE all_matches

Recorded(w, t) ==
  \E n \in 1..Len(RunMatches) :
    RunMatches[n].english_text = w /\ RunMatches[n].ojibwe_text = t

\* the similarity of word w and the k-th Ojibwe entry of this run
SimilarityOf(w, k) == Cosine(Encode(english_dict[w]), ojibwe_embeds[k])

Qualifying(w) ==
  {ojibwe_translations[k].ojibwe_text :
     k \in {n \in 1..Len(ojibwe_translations) : SimilarityOf(w, n) >= threshold}}

RecordsOf(w) == {n \in 1..Len(RunMatches) : RunMatches[n].english_text = w}

\* C18: while the process lives, every word whose comparison pass completed has
\* exactly one match record for each Ojibwe entry that meets the threshold: as
\* many records as qualifying entries, and their entries are the qualifying ones.
C18_MultiAccept ==
  pc # "crashed" =>
    \A w \in scored :
      /\ Cardinality(RecordsOf(w)) = Cardinality(Qualifying(w))
      /\ {RunMatches[n].ojibwe_text : n \in RecordsOf(w)} = Qualifying(w)

\* C18 witness: a run has ended with a word that has two records, one of them
\* not its best, a word with one record and a word with none.
C18_Witness ==
  /\ pc = "done"
  /\ \E w \in scored :
       /\ Cardinality(RecordsOf(w)) = 2
       /\ \E a, b \in RecordsOf(w) :
            RunMatches[a].similarity > RunMatches[b].similarity
  /\ \E w \in scored : Cardinality(RecordsOf(w)) = 1
  /\ \E w \in scored : Cardinality(RecordsOf(w)) = 0

\* C19: whenever the pair scored last has an embedding of zero norm, the
\* similarity computed for it is exactly 0.
C19_ZeroNormSimilarityZero ==
  (last_pair # <<>> /\ last_pair.norms = 0) => last_pair.similarity = 0

\* C20: the exported snapshot is in non-increasing order of similarity and the
\* record at position n (counted from 0) carries the index n.
C20_SnapshotSortedIndexed ==
  matches_file.kind = "ok" =>
    /\ \A a, b \in 1..Len(matches_file.data) :
         a < b => matches_file.data[a].similarity >= matches_file.data[b].similarity
    /\ \A n \in 1..Len(matches_file.data) : matches_file.data[n].index = n - 1
    /\ {matches_file.data[n].index : n \in 1..Len(matches_file.data)}
         = 0..(Len(matches_file.data) - 1)

\* C20 witness: a snapshot of at least four records, with equal and with
\* different similarities, exported by a run whose matches were not found in
\* that order.
C20_Witness ==
  /\ pc = "done"
  /\ matches_file.kind = "ok"
  /\ Len(matches_file.data) >= 4
  /\ \E a, b \in 1..Len(matches_file.data) :
       a < b /\ matches_file.data[a].similarity = matches_file.data[b].similarity
  /\ \E a, b \in 1..Len(matches_file.data) :
       a < b /\ matches_file.data[a].similarity > matches_file.data[b].similarity
  /\ \E a, b \in 1..Len(all_matches) :
       a < b /\ all_matches[a].similarity < all_matches[b].similarity

C22_EmptyTargetsAbort ==
  (run_no >= 1 /\ ojibwe_translations = <<>>) =>
    /\ pc = "returned"
    /\ error = "none"
    /\ target_encodes = 0
    /\ ojibwe_embeds = <<>>
    /\ eng_embeds = <<>>
    /\ batched = {}
    /\ scored = {}
    /\ <<processed_file, matches_file, ojibwe_db, english_to_ojibwe>> = at_start

\* C22 witness: a run over an empty Ojibwe store has returned, although there
\* were untranslated words above the minimum frequency and a processed-words
\* file to load.
C22_Witness ==
  /\ run_no >= 1
  /\ ojibwe_translations = <<>>
  /\ pc = "returned"
  /\ processed_file = FileOf({"apple"})
  /\ RemainingWords(<<>>, {"apple"}) # <<>>

\* C23: once the write of the processed-words file or of the match snapshot
\* has raised, the run has ended with that exception: it is at no gate and in
\* no batch, no word was batched beyond those scored, and every match the run
\* accepted is in the English->Ojibwe store.
C23_WriteFailureFatal ==
  error \in {"OSError:save", "OSError:export"} =>
    /\ pc = "failed"
    /\ ~listening
    /\ batched = scored
    /\ \A k \in 1..Len(all_matches) :
         <<all_matches[k].english_text, all_matches[k].ojibwe_text>>
           \in english_to_ojibwe

\* C23 witness: the save of the second batch raised in a run that had accepted
\* matches, with candidates still waiting.
C23_Witness ==
  /\ error = "OSError:save"
  /\ pc = "failed"
  /\ batch_number = 2
  /\ all_matches # <<>>
  /\ batch_start + BatchSize < Len(remaining_words)

\* C24: once the encoder has raised for a batch, the run has ended with that
\* exception; no word of that batch is scored, in a match record, in the
\* processed set or its file, or newly in a store, and no word was batched
\* beyond those scored before.
C24_EncodeFailureFatal ==
  error = "EncoderError" =>
    /\ pc = "failed"
    /\ batched = scored
    /\ \A w \in Range(batch_words) :
         /\ w \notin scored
         /\ w \notin processed_words
         /\ w \notin Persisted
         /\ \A k \in 1..Len(all_matches) : all_matches[k].english_text # w
         /\ \A t \in Targets : <<w, t>> \in english_to_ojibwe => w \in accepted_before

\* C24 witness: the encoder raised for the second batch of a run that had
\* accepted matches in its first, and the failed batch holds a word that meets
\* the threshold for some entry.
C24_Witness ==
  /\ error = "EncoderError"
  /\ pc = "failed"
  /\ batch_number = 2
  /\ all_matches # <<>>
  /\ \E w \in Range(batch_words) : \E k \in 1..Len(ojibwe_translations) :
       SimilarityOf(w, k) >= threshold

\* a run that nobody interrupts and in which nothing fails: no key press, no
\* kill, no exception from the encoder or from a write; the interpreter keeps
\* executing the next statement
QuietNext ==
  \/ StartRun
  \/ BeginBatch
  \/ ScorePair
  \/ FinishBatch
  \/ SaveDone
  \/ CountdownCheck
  \/ CountdownSleep
  \/ ExportOpen
  \/ ExportWrite

\* the statements of a run that has started
RunStep ==
  \/ BeginBatch
  \/ ScorePair
  \/ FinishBatch
  \/ SaveDone
  \/ CountdownCheck
  \/ CountdownSleep
  \/ ExportOpen
  \/ ExportWrite

QuietSpec == Init /\ [][QuietNext]_vars /\ WF_vars(RunStep)

CeilDiv(n, b) == (n + b - 1) \div b

\* C25: absent interruption and failure, a run that enters its batch loop ends,
\* and when it has ended it has run exactly ceil(n / b) batches over its n
\* candidates, has processed n words in total, each candidate once, and all of
\* them are in the processed-words file.
C25_ExactBatchCount ==
  /\ [](pc = "done" =>
          /\ batch_number - 1 = CeilDiv(Len(remaining_words), BatchSize)
          /\ total_processed = Len(remaining_words)
          /\ Cardinality(Range(remaining_words)) = Len(remaining_words)
          /\ scored = Range(remaining_words)
          /\ batched = Range(remaining_words)
          /\ Range(remaining_words) \subseteq Persisted)
  /\ (pc = "batch" /\ batch_start = 0) ~> (pc = "done")

\* C25 witness: a run over five candidates has ended after three batches, the
\* last of them shorter than the batch size.
C25_Witness ==
  /\ pc = "done"
  /\ Len(remaining_words) = 2 * BatchSize + 1
  /\ batch_number - 1 = 3
  /\ total_processed = Len(remaining_words)
  /\ Range(remaining_words) \subseteq Persisted

\* C26: while a batch is scored its words are all encoded, none of them is in
\* the processed set or its file, and every earlier batch of the run is on
\* file; while the batch is saved and at the gate after it all its words have
\* completed scoring; at the gate they are on file; a batch starts only when
\* every batched word has been scored and saved.
C26_StepOrder ==
  /\ pc = "score" =>
       /\ eng_embeds = batch_get_embeddings(
                         [k \in 1..Len(batch_words) |-> english_dict[batch_words[k]]])
       /\ Range(batch_words) \cap processed_words = {}
       /\ Range(batch_words) \cap Persisted = {}
       /\ (batched \ Range(batch_words)) \subseteq (scored \cap Persisted)
  /\ pc = "save" =>
       /\ Range(batch_words) \subseteq scored
       /\ Range(batch_words) \subseteq processed_words
       /\ batched = scored
  /\ AtGate =>
       /\ Range(batch_words) \subseteq (scored \cap Persisted)
       /\ batched = scored
  /\ pc = "batch" =>
       /\ batched = scored
       /\ batched \subseteq Persisted

\* C26 witness: the last pair of the second batch is about to be scored; the
\* first batch is on file and no word of the second is.
C26_Witness ==
  /\ pc = "score"
  /\ batch_number = 2
  /\ i = Len(batch_words)
  /\ j = Len(ojibwe_translations)
  /\ batched \ Range(batch_words) # {}
  /\ (batched \ Range(batch_words)) \subseteq Persisted
  /\ Range(batch_words) \cap Persisted = {}

\* the (english, ojibwe, similarity) triples of a list of match records
Triples(records) ==
  {<<records[k].english_text, records[k].ojibwe_text, records[k].similarity>> :
     k \in 1..Len(records)}

\* C27: when a run has ended after its export, the snapshot file holds as many
\* records as the run accepted matches and exactly their triples, whatever the
\* file held when the run started.
C27_SnapshotIsThisRun ==
  pc = "done" =>
    /\ matches_file.kind = "ok"
    /\ Len(matches_file.data) = Len(all_matches)
    /\ Triples(matches_file.data) = Triples(all_matches)

\* C27 witness: a run that found a snapshot with records from an earlier run
\* has ended, and a record of the earlier snapshot is no longer in the file.
C27_Witness ==
  /\ pc = "done"
  /\ scored # {}
  /\ at_start[2].kind = "ok"
  /\ at_start[2].data # <<>>
  /\ matches_file.kind = "ok"
  /\ \E t \in Triples(at_start[2].data) : t \notin Triples(matches_file.data)

\* C28: a run that loaded Ojibwe entries and a processed set and was left with
\* no candidate has returned before the batch loop: nothing was encoded or
\* batched, and the processed-words file, the snapshot file and both stores
\* are as the run found them.
C28_NothingToProcessNoEffect ==
  (/\ run_no >= 1
   /\ ojibwe_translations # <<>>
   /\ error = "none"
   /\ remaining_words = <<>>) =>
    /\ pc = "returned"
    /\ target_encodes = 0
    /\ eng_embeds = <<>>
    /\ batched = {}
    /\ scored = {}
    /\ <<processed_file, matches_file, ojibwe_db, english_to_ojibwe>> = at_start

\* C28 witness: a run found every untranslated frequent word already in the
\* processed set and returned, with the earlier snapshot and its records still
\* on file.
C28_Witness ==
  /\ pc = "returned"
  /\ ojibwe_translations # <<>>
  /\ remaining_words = <<>>
  /\ loaded # {}
  /\ matches_file.kind = "ok"
  /\ matches_file.data # <<>>
  /\ english_to_ojibwe # {}

\* C29: every countdown starts with a clear stop event and a listener of its
\* own, whatever key presses arrived since the previous countdown, and a run
\* exits through the gate only if a key press arrived during a countdown.
C29_CancelNotLatched ==
  /\ [][(pc = "save" /\ pc' = "countdown") => (~stop_event' /\ listening')]_vars
  /\ [](pc = "exited" => signalled)

\* C29 witness: a key was pressed while the second batch was processed, the
\* gate after that batch let the run through, and the third batch is being
\* scored with that gate's listener still waiting.
C29_Witness ==
  /\ ignored_press
  /\ ~signalled
  /\ listening
  /\ ~stop_event
  /\ pc = "score"
  /\ batch_number = 3

\* ---- the mobile recorder (App.js): handlers ----

InFlight == awaiting["requestPermission"] + awaiting["startRecorder"]
            + awaiting["stopRecorder"] + awaiting["putFile"]

Resume(call) == [awaiting EXCEPT ![call] = @ - 1]

\* a press on the first button while it reads "Start Recording": the handler
\* runs to its first await
startRecording ==
  /\ ~recording
  /\ presses < MaxPresses
  /\ InFlight < MaxInFlight
  /\ presses' = presses + 1
  /\ awaiting' = [awaiting EXCEPT !["requestPermission"] = @ + 1]
  /\ UNCHANGED <<platform, recording, filePath, uploadStatus, storage, stopped, rejected>>
  /\ UNCHANGED orchvars

\* requestPermission settles (a failed request is caught and counts as denied)
\* and startRecording continues: return when denied, else evaluate
\* Platform.select and call startRecorder
requestPermission ==
  /\ awaiting["requestPermission"] > 0
  /\ \E hasPermission \in BOOLEAN :
       IF ~hasPermission
         THEN /\ awaiting' = Resume("requestPermission")
              /\ UNCHANGED rejected
         ELSE IF platform = "unbound"
           THEN /\ awaiting' = Resume("requestPermission")
                /\ rejected' = rejected + 1
           ELSE /\ awaiting' = [Resume("requestPermission") EXCEPT !["startRecorder"] = @ + 1]
                /\ UNCHANGED rejected
  /\ UNCHANGED <<platform, recording, filePath, uploadStatus, storage, presses, stopped>>
  /\ UNCHANGED orchvars

\* startRecorder settles and startRecording runs to its end
startRecorderSettled ==
  /\ awaiting["startRecorder"] > 0
  /\ awaiting' = Resume("startRecorder")
  /\ \E ok \in BOOLEAN :
       IF ok
         THEN /\ recording' = TRUE
              /\ uploadStatus' = "Recording..."
              /\ UNCHANGED rejected
         ELSE /\ rejected' = rejected + 1
              /\ UNCHANGED <<recording, uploadStatus>>
  /\ UNCHANGED <<platform, filePath, storage, presses, stopped>>
  /\ UNCHANGED orchvars

\* a press on the first button while it reads "Stop Recording"
stopRecording ==
  /\ recording
  /\ presses < MaxPresses
  /\ InFlight < MaxInFlight
  /\ presses' = presses + 1
  /\ awaiting' = [awaiting EXCEPT !["stopRecorder"] = @ + 1]
  /\ UNCHANGED <<platform, recording, filePath, uploadStatus, storage, stopped, rejected>>
  /\ UNCHANGED orchvars

\* stopRecorder settles and stopRecording runs to its end; the result is the
\* path the recorder was started with
stopRecorderSettled ==
  /\ awaiting["stopRecorder"] > 0
  /\ awaiting' = Resume("stopRecorder")
  /\ \E ok \in BOOLEAN :
       IF ok
         THEN /\ recording' = FALSE
              /\ filePath' = PlatformSelect(platform)
              /\ uploadStatus' = "Recording stopped. Ready to upload."
              /\ stopped' = stopped + 1
              /\ UNCHANGED rejected
         ELSE /\ rejected' = rejected + 1
              /\ UNCHANGED <<recording, filePath, uploadStatus, stopped>>
  /\ UNCHANGED <<platform, storage, presses>>
  /\ UNCHANGED orchvars

\* a press on the Upload button: a disabled button drops the press, otherwise
\* uploadAudio runs: return on an empty filePath, else call putFile
uploadAudio ==
  /\ presses < MaxPresses
  /\ UploadDisabled(filePath, recording) \/ filePath = "" \/ InFlight < MaxInFlight
  /\ presses' = presses + 1
  /\ IF UploadDisabled(filePath, recording) \/ filePath = ""
       THEN UNCHANGED awaiting
       ELSE awaiting' = [awaiting EXCEPT !["putFile"] = @ + 1]
  /\ UNCHANGED <<platform, recording, filePath, uploadStatus, storage, stopped, rejected>>
  /\ UNCHANGED orchvars

\* putFile settles and uploadAudio runs to its end
putFileSettled ==
  /\ awaiting["putFile"] > 0
  /\ awaiting' = Resume("putFile")
  /\ \E ok \in BOOLEAN :
       IF ok
         THEN /\ storage' = storage + 1
              /\ uploadStatus' = "Uploaded successfully!"
              /\ UNCHANGED rejected
         ELSE /\ rejected' = rejected + 1
              /\ UNCHANGED <<storage, uploadStatus>>
  /\ UNCHANGED <<platform, recording, filePath, presses, stopped>>
  /\ UNCHANGED orchvars

AppNext ==
  \/ startRecording
  \/ requestPermission
  \/ startRecorderSettled
  \/ stopRecording
  \/ stopRecorderSettled
  \/ uploadAudio
  \/ putFileSettled

\* the recorder on a device, whatever Platform resolves to there; the
\* orchestrator is not running
AppInit ==
  /\ OrchInit
  /\ processed_file = Absent
  /\ ojibwe_db = InitialOjibwe
  /\ platform \in Platforms
  /\ AppMounted

AppSpec == AppInit /\ [][AppNext]_vars

\* the step is a press on the Upload button
UploadPressed ==
  /\ presses' = presses + 1
  /\ awaiting'["requestPermission"] = awaiting["requestPermission"]
  /\ awaiting'["stopRecorder"] = awaiting["stopRecorder"]

\* C30: whatever was pressed so far, the Upload button is enabled only when a
\* stopRecorder call has returned a path (filePath is not empty) and the
\* recording state is false, and a press on Upload while filePath is empty
\* changes no state of the component, starts no upload and stores nothing.
C30_UploadOnlyAfterStop ==
  /\ [](~UploadDisabled(filePath, recording)
          => (filePath # "" /\ stopped > 0 /\ ~recording))
  /\ [][(UploadPressed /\ filePath = "")
          => UNCHANGED <<recording, filePath, uploadStatus, awaiting, storage,
                         stopped, rejected>>]_vars

\* a recording was started and stopped, Upload was enabled and pressed, and the
\* file reached storage
C30_Witness ==
  /\ ~UploadDisabled(filePath, recording)
  /\ stopped > 0
  /\ storage > 0

====
